---- MODULE Spec2Model ----
(***************************************************************************)
(* Room registry and message fan-out of the WebSocket chat server          *)
(* (src/server.js, lines 57-202).  One action per event handler: the       *)
(* "connection" callback, each branch of the "message" callback and the    *)
(* "close" callback.  Node runs every callback to completion, so each      *)
(* handler is one atomic step.                                             *)
(***************************************************************************)
EXTENDS Integers, Sequences, FiniteSets, TLC

\* ---------------------------------------------------------------- bounds
\* Connections the server accepts.
MaxConns == 2
\* Inbound frames and close events the server handles.
MaxEvents == 4

\* ------------------------------------------------------ program constants
MinCode == 10000

Conns == 1..MaxConns

\* JavaScript null and undefined, kept apart from every string.
Null == "<null>"
Undefined == "<undefined>"

UserIds == {"u1", "u2"}
\* msg.userId after destructuring: a string, or undefined when the field is absent.
UserValues == UserIds \cup {Undefined}

\* Math.floor(10000 + Math.random() * 90000): the draw the model explores.  Two
\* create actions draw the same number, which the generator allows.
CodeNumbers == {MinCode}
\* .toString() of the drawn number.
RoomCode(n) == ToString(n)
RoomCodes == {RoomCode(n) : n \in CodeNumbers}
\* The userId the model's message, deleteFile and clearChat frames carry.
SenderIds == {"u1"}

\* msg.room after destructuring: a room code, or undefined when the field is absent.
RoomValues == RoomCodes \cup {Undefined}

VARIABLES rooms, roomOwners, readyState, closeFrameReceived,
          currentRoom, currentUser, sent, last, joinLog, events, inbox

vars == <<rooms, roomOwners, readyState, closeFrameReceived,
          currentRoom, currentUser, sent, last, joinLog, events, inbox>>

\* ------------------------------------------------------- JavaScript values
\* if (v) / v && ...
Truthy(v) == v \notin {Null, Undefined, ""}

\* Property key of obj[v]: ToString(v).
Key(v) == IF v = Undefined THEN "undefined" ELSE IF v = Null THEN "null" ELSE v

Has(obj, v) == Key(v) \in DOMAIN obj

\* obj[v] read: undefined when there is no such property.
Get(obj, v) == IF Has(obj, v) THEN obj[Key(v)] ELSE Undefined

\* obj[v] = x
Put(obj, v, x) == [k \in DOMAIN obj \cup {Key(v)} |-> IF k = Key(v) THEN x ELSE obj[k]]

\* delete obj[v]
Delete(obj, v) == [k \in DOMAIN obj \ {Key(v)} |-> obj[k]]

EmptyObject == [k \in {} |-> Undefined]

\* -------------------------------------------------------------- messages
RoomCreatedMsg(room) == [action |-> "roomCreated", room |-> room]
JoinMsg(room, userId) ==
    [action |-> "system", room |-> room, text |-> <<userId, " has joined the chat">>]
LeftMsg(room, user) ==
    [action |-> "system", room |-> room, text |-> <<user, " has left the chat">>]
RawMsg(userId) == [action |-> "message", userId |-> userId, text |-> "hi"]
DeleteMsg(room, userId) ==
    [action |-> "deleteFile", room |-> room, userId |-> userId,
     url |-> "http://localhost:8080/uploads/f", filename |-> "f"]
ClearMsg(room, userId) ==
    [action |-> "clearChat", room |-> room, userId |-> userId,
     text |-> <<"Chat cleared by ", userId, " using shortcut (", "ctrl+l", ")">>]
DestroyMsg(room, userId) ==
    [action |-> "roomDestroyed", room |-> room,
     text |-> <<"Room ", room, " has been destroyed by ", userId>>]

\* One ws.send call: the target, the message, and whether the target was OPEN.
Send(client, msg, rs) == [to |-> client, msg |-> msg, open |-> rs[client] = "OPEN"]

\* ---------------------------------------------------------------- loops
\* A loop that stops at the first client that is not OPEN instead of skipping
\* it: the clients after it in the list get nothing.
BroadcastUntilClosed(list, msg, rs) ==
    LET stop == {i \in DOMAIN list : rs[list[i]] # "OPEN"}
        n    == IF stop = {} THEN Len(list)
                ELSE (CHOOSE i \in stop : \A j \in stop : i <= j) - 1
    IN  [i \in 1..n |-> Send(list[i], msg, rs)]

\* list.forEach(client => { if (client.readyState === WebSocket.OPEN) client.send(msg) })
Broadcast(list, msg, rs) ==
    LET open == SelectSeq(list, LAMBDA client : rs[client] = "OPEN")
    IN  [i \in 1..Len(open) |-> Send(open[i], msg, rs)]

\* The join notice loop: every open client of the list other than ws.
BroadcastOthers(list, ws, msg, rs) ==
    LET open == SelectSeq(list, LAMBDA client : client # ws /\ rs[client] = "OPEN")
    IN  [i \in 1..Len(open) |-> Send(open[i], msg, rs)]

\* The destroyRoom loop without client.close(): every OPEN client is sent the
\* notice and left open.
RECURSIVE DestroyLoopWithoutClose(_, _, _, _)
DestroyLoopWithoutClose(list, msg, rs, out) ==
    IF list = <<>> THEN [rs |-> rs, out |-> out]
    ELSE LET client == Head(list)
         IN  IF rs[client] = "OPEN"
             THEN DestroyLoopWithoutClose(Tail(list), msg, rs,
                                          Append(out, Send(client, msg, rs)))
             ELSE DestroyLoopWithoutClose(Tail(list), msg, rs, out)

\* The destroyRoom loop: send and close every client that is OPEN when the
\* loop reaches it.  close() moves the client to CLOSING at once.
RECURSIVE DestroyLoop(_, _, _, _)
DestroyLoop(list, msg, rs, out) ==
    IF list = <<>> THEN [rs |-> rs, out |-> out]
    ELSE LET client == Head(list)
         IN  IF rs[client] = "OPEN"
             THEN DestroyLoop(Tail(list), msg,
                              [rs EXCEPT ![client] = "CLOSING"],
                              Append(out, Send(client, msg, rs)))
             ELSE DestroyLoop(Tail(list), msg, rs, out)

\* unshift in place of push: the joiner goes to the front of the list.
PushFront(list, ws) == <<ws>> \o list

\* rooms[currentRoom].push(ws)
Push(list, ws) == Append(list, ws)

\* rooms[currentRoom].filter(c => c !== ws)
Without(list, ws) == SelectSeq(list, LAMBDA client : client # ws)

\* ---------------------------------------------------------------- state
Init ==
    /\ rooms = EmptyObject
    /\ roomOwners = EmptyObject
    /\ readyState = [c \in Conns |-> "CONNECTING"]
    /\ closeFrameReceived = [c \in Conns |-> FALSE]
    /\ currentRoom = [c \in Conns |-> Null]
    /\ currentUser = [c \in Conns |-> Null]
    /\ sent = <<>>
    /\ last = [conn |-> 0, action |-> "none", userId |-> Undefined, room |-> Undefined]
    /\ joinLog = EmptyObject
    /\ events = 0
    /\ inbox = [c \in Conns |-> <<>>]

\* The event just handled.
Event(ws, action, userId, room) ==
    [conn |-> ws, action |-> action, userId |-> userId, room |-> room]

\* One more event handed to the "message" or "close" callback.
CountEvent ==
    /\ events < MaxEvents
    /\ events' = events + 1

\* The "message" callback runs for a socket whose receiver is still reading:
\* accepted, close event not yet emitted, and no close frame read from the peer.
Receiving(ws) ==
    /\ readyState[ws] \in {"OPEN", "CLOSING"}
    /\ ~closeFrameReceived[ws]

\* wss.on("connection")
Connect(ws) ==
    /\ readyState[ws] = "CONNECTING"
    /\ \A other \in Conns : other < ws => readyState[other] # "CONNECTING"
    /\ readyState' = [readyState EXCEPT ![ws] = "OPEN"]
    /\ currentRoom' = [currentRoom EXCEPT ![ws] = Null]
    /\ currentUser' = [currentUser EXCEPT ![ws] = Null]
    /\ sent' = <<>>
    /\ last' = Event(ws, "connection", Undefined, Undefined)
    /\ UNCHANGED <<rooms, roomOwners, closeFrameReceived, joinLog, events>>

\* action === "create"; n is the number Math.random() yields.
Create(ws, userId, n) ==
    LET room == RoomCode(n) IN
    /\ Receiving(ws)
    /\ CountEvent
    /\ currentRoom' = [currentRoom EXCEPT ![ws] = room]
    /\ rooms' = Put(rooms, room, <<ws>>)
    /\ roomOwners' = Put(roomOwners, room, userId)
    /\ currentUser' = [currentUser EXCEPT ![ws] = userId]
    /\ sent' = <<Send(ws, RoomCreatedMsg(room), readyState)>>
    /\ last' = Event(ws, "create", userId, room)
    /\ joinLog' = Put(joinLog, room, <<ws>>)
    /\ UNCHANGED <<readyState, closeFrameReceived>>

\* action === "join"
Join(ws, userId, room) ==
    LET old == IF Has(rooms, room) THEN Get(rooms, room) ELSE <<>>
        list == Push(old, ws)
    IN
    /\ Receiving(ws)
    /\ CountEvent
    /\ currentRoom' = [currentRoom EXCEPT ![ws] = room]
    /\ currentUser' = [currentUser EXCEPT ![ws] = userId]
    /\ rooms' = Put(rooms, room, list)
    /\ sent' = BroadcastOthers(list, ws, JoinMsg(room, userId), readyState)
    /\ last' = Event(ws, "join", userId, room)
    /\ joinLog' = IF Has(joinLog, room)
                  THEN Put(joinLog, room, Append(Get(joinLog, room), ws))
                  ELSE joinLog
    /\ UNCHANGED <<roomOwners, readyState, closeFrameReceived>>

\* The branch condition without "&& currentRoom": the member list is looked up
\* under whatever key the session's room variable converts to.
FanoutUnguarded(ws, msg) ==
    IF Has(rooms, currentRoom[ws])
    THEN Broadcast(Get(rooms, currentRoom[ws]), msg, readyState)
    ELSE <<>>

\* What a broadcasting branch sends: nothing when the session is unbound (no
\* branch matches) or when rooms[currentRoom] is undefined (forEach throws a
\* TypeError that the catch block swallows).
Fanout(ws, msg) ==
    IF Truthy(currentRoom[ws]) /\ Has(rooms, currentRoom[ws])
    THEN Broadcast(Get(rooms, currentRoom[ws]), msg, readyState)
    ELSE <<>>

\* unshift in place of append: the newest frame goes to the front of the
\* client's queue.
RECURSIVE DeliverFront(_, _, _, _)
DeliverFront(box, log, ws, n) ==
    IF log = <<>> THEN box
    ELSE DeliverFront([box EXCEPT ![Head(log).to] = <<[from |-> ws, seq |-> n]>> \o @],
                      Tail(log), ws, n)

\* client.send(...) of the message, deleteFile and clearChat loops: each call
\* appends one frame to the client's socket, which transmits in call order.
\* A frame is recorded by its sender and by the number of the event that
\* issued it.
RECURSIVE Deliver(_, _, _, _)
Deliver(box, log, ws, n) ==
    IF log = <<>> THEN box
    ELSE Deliver([box EXCEPT ![Head(log).to] = Append(@, [from |-> ws, seq |-> n])],
                 Tail(log), ws, n)

\* action === "message" && currentRoom
Message(ws, userId) ==
    /\ Receiving(ws)
    /\ CountEvent
    /\ sent' = Fanout(ws, RawMsg(userId))
    /\ last' = Event(ws, "message", userId, Undefined)
    /\ UNCHANGED <<rooms, roomOwners, readyState, closeFrameReceived,
                   currentRoom, currentUser, joinLog>>

\* action === "deleteFile" && currentRoom
DeleteFile(ws, userId) ==
    /\ Receiving(ws)
    /\ CountEvent
    /\ sent' = Fanout(ws, DeleteMsg(currentRoom[ws], userId))
    /\ last' = Event(ws, "deleteFile", userId, Undefined)
    /\ UNCHANGED <<rooms, roomOwners, readyState, closeFrameReceived,
                   currentRoom, currentUser, joinLog>>

\* action === "clearChat" && currentRoom
ClearChat(ws, userId) ==
    /\ Receiving(ws)
    /\ CountEvent
    /\ sent' = Fanout(ws, ClearMsg(currentRoom[ws], userId))
    /\ last' = Event(ws, "clearChat", userId, Undefined)
    /\ UNCHANGED <<rooms, roomOwners, readyState, closeFrameReceived,
                   currentRoom, currentUser, joinLog>>

\* roomOwners[currentRoom] === userId
OwnerCheck(ws, userId) == Get(roomOwners, currentRoom[ws]) = userId

\* action === "destroyRoom" && currentRoom
DestroyRoom(ws, userId) ==
    /\ Receiving(ws)
    /\ CountEvent
    /\ last' = Event(ws, "destroyRoom", userId, Undefined)
    /\ IF Truthy(currentRoom[ws]) /\ OwnerCheck(ws, userId)
          /\ Has(rooms, currentRoom[ws])
       THEN LET loop == DestroyLoop(Get(rooms, currentRoom[ws]),
                                    DestroyMsg(currentRoom[ws], userId),
                                    readyState, <<>>)
            IN  /\ sent' = loop.out
                /\ readyState' = loop.rs
                /\ rooms' = Delete(rooms, currentRoom[ws])
                /\ roomOwners' = Delete(roomOwners, currentRoom[ws])
                /\ joinLog' = EmptyObject
       ELSE \* not bound, not the owner, or rooms[currentRoom].forEach threw
            /\ sent' = <<>>
            /\ UNCHANGED <<rooms, roomOwners, readyState, joinLog>>
    /\ UNCHANGED <<closeFrameReceived, currentRoom, currentUser>>

\* JSON.parse throws, or no branch matches the action.
Discard(ws) ==
    /\ Receiving(ws)
    /\ CountEvent
    /\ sent' = <<>>
    /\ last' = Event(ws, "discard", Undefined, Undefined)
    /\ UNCHANGED <<rooms, roomOwners, readyState, closeFrameReceived,
                   currentRoom, currentUser, joinLog>>

\* The peer starts the closing handshake: its close frame is read, the socket
\* answers and is CLOSING until the "close" event.
PeerClose(ws) ==
    /\ readyState[ws] \in {"OPEN", "CLOSING"}
    /\ ~closeFrameReceived[ws]
    /\ readyState' = [readyState EXCEPT ![ws] = "CLOSING"]
    /\ closeFrameReceived' = [closeFrameReceived EXCEPT ![ws] = TRUE]
    /\ sent' = <<>>
    /\ last' = Event(ws, "peerClose", Undefined, Undefined)
    /\ CountEvent
    /\ UNCHANGED <<rooms, roomOwners, currentRoom, currentUser, joinLog>>

\* ws.on("close"): the handshake completed or the socket dropped.
OnClose(ws) ==
    /\ readyState[ws] \in {"OPEN", "CLOSING"}
    /\ readyState' = [readyState EXCEPT ![ws] = "CLOSED"]
    /\ last' = Event(ws, "close", Undefined, Undefined)
    /\ joinLog' = EmptyObject
    /\ IF Truthy(currentRoom[ws]) /\ Has(rooms, currentRoom[ws])
       THEN LET list == Without(Get(rooms, currentRoom[ws]), ws)
            IN  /\ rooms' = Put(rooms, currentRoom[ws], list)
                /\ sent' = IF Truthy(currentUser[ws])
                           THEN Broadcast(list,
                                          LeftMsg(currentRoom[ws], currentUser[ws]),
                                          readyState')
                           ELSE <<>>
       ELSE /\ sent' = <<>>
            /\ UNCHANGED rooms
    /\ CountEvent
    /\ UNCHANGED <<roomOwners, closeFrameReceived, currentRoom, currentUser>>

\* The clients' queues at a step: a message, deleteFile or clearChat handler
\* hands its frames to the sockets; no other step adds to them.
Queue ==
    inbox' = IF last'.action \in {"message", "deleteFile", "clearChat"}
             THEN Deliver(inbox, sent', last'.conn, events')
             ELSE inbox

\* The server with the clients' queues left out of the state: they stay empty.
Next ==
    \/ \E ws \in Conns : Connect(ws) /\ UNCHANGED inbox
    \/ \E ws \in Conns, userId \in UserValues, n \in CodeNumbers :
          Create(ws, userId, n) /\ UNCHANGED inbox
    \/ \E ws \in Conns, userId \in UserValues, room \in RoomValues :
          Join(ws, userId, room) /\ UNCHANGED inbox
    \/ \E ws \in Conns, userId \in SenderIds : Message(ws, userId) /\ UNCHANGED inbox
    \/ \E ws \in Conns, userId \in SenderIds : DeleteFile(ws, userId) /\ UNCHANGED inbox
    \/ \E ws \in Conns, userId \in SenderIds : ClearChat(ws, userId) /\ UNCHANGED inbox
    \/ \E ws \in Conns, userId \in UserValues : DestroyRoom(ws, userId) /\ UNCHANGED inbox
    \/ \E ws \in Conns : Discard(ws) /\ UNCHANGED inbox
    \/ \E ws \in Conns : PeerClose(ws) /\ UNCHANGED inbox
    \/ \E ws \in Conns : OnClose(ws) /\ UNCHANGED inbox

Spec == Init /\ [][Next]_vars

\* The server with the clients' queues kept, for join frames that carry a
\* room code.
NextFifo ==
    \/ \E ws \in Conns : Connect(ws) /\ Queue
    \/ \E ws \in Conns, userId \in UserValues, n \in CodeNumbers :
          Create(ws, userId, n) /\ Queue
    \/ \E ws \in Conns, userId \in UserValues, room \in RoomCodes :
          Join(ws, userId, room) /\ Queue
    \/ \E ws \in Conns, userId \in SenderIds : Message(ws, userId) /\ Queue
    \/ \E ws \in Conns, userId \in SenderIds : DeleteFile(ws, userId) /\ Queue
    \/ \E ws \in Conns, userId \in SenderIds : ClearChat(ws, userId) /\ Queue
    \/ \E ws \in Conns, userId \in UserValues : DestroyRoom(ws, userId) /\ Queue
    \/ \E ws \in Conns : Discard(ws) /\ Queue
    \/ \E ws \in Conns : PeerClose(ws) /\ Queue
    \/ \E ws \in Conns : OnClose(ws) /\ Queue

SpecFifo == Init /\ [][NextFifo]_vars

\* ------------------------------------------------------------ properties
\* The connections that occur in a member list.
Members(list) == {list[i] : i \in DOMAIN list}

\* How many times ws occurs in a member list.
Occurrences(list, ws) == Cardinality({i \in DOMAIN list : list[i] = ws})

\* How many messages of one kind the send log delivered to client.
Received(log, client, action) ==
    Cardinality({i \in DOMAIN log :
                    log[i].to = client /\ log[i].open /\ log[i].msg.action = action})

\* The step handles a destroyRoom frame whose userId is the owner recorded for
\* the sender's current room.
OwnerDestroyStep ==
    /\ last'.action = "destroyRoom"
    /\ Truthy(currentRoom[last'.conn])
    /\ Has(rooms, currentRoom[last'.conn])
    /\ Has(roomOwners, currentRoom[last'.conn])
    /\ Get(roomOwners, currentRoom[last'.conn]) = last'.userId

\* C1 as stated: an owner's destroyRoom delivers exactly one roomDestroyed to
\* every connection of the room's member list, leaves none of them open, and
\* removes the room from rooms and from roomOwners.
C1_DestroyNotifiesEveryMember ==
    [][OwnerDestroyStep =>
        LET room == currentRoom[last'.conn]
        IN  /\ \A m \in Members(Get(rooms, room)) :
                  /\ Received(sent', m, "roomDestroyed") = 1
                  /\ readyState'[m] # "OPEN"
            /\ ~Has(rooms', room)
            /\ ~Has(roomOwners', room)]_vars

\* C1 amended: an owner's destroyRoom delivers exactly one roomDestroyed to
\* every connection of the member list that is OPEN at that moment and none to
\* a member that is not, leaves no member open, and removes the room from rooms
\* and from roomOwners.
C1_DestroyNotifiesOpenMembers ==
    [][OwnerDestroyStep =>
        LET room == currentRoom[last'.conn]
        IN  /\ \A m \in Members(Get(rooms, room)) :
                  /\ Received(sent', m, "roomDestroyed")
                        = (IF readyState[m] = "OPEN" THEN 1 ELSE 0)
                  /\ readyState'[m] # "OPEN"
            /\ \A c \in Conns \ Members(Get(rooms, room)) :
                  /\ Received(sent', c, "roomDestroyed") = 0
                  /\ readyState'[c] = readyState[c]
            /\ ~Has(rooms', room)
            /\ ~Has(roomOwners', room)]_vars

\* An owner's destroyRoom has just notified and closed two distinct members.
C1_Witness ==
    /\ last.action = "destroyRoom"
    /\ Len(sent) = 2
    /\ sent[1].to # sent[2].to
    /\ \A i \in DOMAIN sent : sent[i].open /\ sent[i].msg.action = "roomDestroyed"
    /\ \A i \in DOMAIN sent : readyState[sent[i].to] = "CLOSING"
    /\ ~Has(rooms, currentRoom[last.conn])
    /\ ~Has(roomOwners, currentRoom[last.conn])

\* C2: a destroyRoom whose requester is not the recorded owner of the session's
\* current room changes no member list and no owner record, closes no
\* connection and sends nothing, neither roomDestroyed nor a reply.
C2_NonOwnerDestroyIsNoOp ==
    [][(/\ last'.action = "destroyRoom"
        /\ Truthy(currentRoom[last'.conn])
        /\ ~(/\ Has(roomOwners, currentRoom[last'.conn])
             /\ Get(roomOwners, currentRoom[last'.conn]) = last'.userId))
       => /\ rooms' = rooms
          /\ roomOwners' = roomOwners
          /\ readyState' = readyState
          /\ sent' = <<>>]_vars

\* C3: a message frame of a bound session reaches every open member of its
\* room exactly once, the sender included, reaches nobody else, and every copy
\* is the raw payload: n open members, n deliveries.
C3_MessageOncePerOpenMember ==
    [][(/\ last'.action = "message"
        /\ Truthy(currentRoom[last'.conn])
        /\ Has(rooms, currentRoom[last'.conn]))
       => LET list == Get(rooms, currentRoom[last'.conn])
              open == {c \in Members(list) : readyState[c] = "OPEN"}
          IN  /\ \A c \in Conns :
                    Received(sent', c, "message") = (IF c \in open THEN 1 ELSE 0)
              /\ \A i \in DOMAIN sent' : sent'[i].msg = RawMsg(last'.userId)
              /\ Len(sent') = Cardinality(open)]_vars

\* The joiners recorded for a room since its create are pairwise distinct.
DistinctJoiners(log) ==
    \A i, j \in 2..Len(log) : i # j => log[i] # log[j]

\* C4: while no close event and no destroy has been handled since a room's
\* create, and the joins since then came from distinct connections, the member
\* list is the creator followed by the joiners in the order of their joins, so
\* its length is the number of joins plus one.
C4_MembersInJoinOrder ==
    \A k \in DOMAIN joinLog :
        DistinctJoiners(joinLog[k]) =>
            /\ k \in DOMAIN rooms
            /\ Len(rooms[k]) = (Len(joinLog[k]) - 1) + 1
            /\ Head(rooms[k]) = Head(joinLog[k])
            /\ Tail(rooms[k]) = Tail(joinLog[k])

\* A created room has taken two joins from distinct connections.
C4_Witness ==
    \E k \in DOMAIN joinLog :
        /\ Len(joinLog[k]) = 3
        /\ DistinctJoiners(joinLog[k])
        /\ last.action = "join"
        /\ Key(last.room) = k
        /\ Len(rooms[k]) = 3

\* C5: the close event of a connection bound to room R removes every
\* occurrence of it from R's list and nothing else, and each remaining open
\* member receives exactly one departure notice when the user is known; the
\* close event of an unbound connection changes no room and sends nothing.
C5_CloseRemovesAndNotifiesOnce ==
    [][last'.action = "close" =>
        LET ws == last'.conn
            room == currentRoom[ws]
        IN  IF Truthy(room)
            THEN Has(rooms, room) =>
                   /\ Has(rooms', room)
                   /\ ws \notin Members(Get(rooms', room))
                   /\ \A c \in Conns \ {ws} :
                         Occurrences(Get(rooms', room), c)
                            = Occurrences(Get(rooms, room), c)
                   /\ \A c \in Conns :
                         Received(sent', c, "system") =
                            (IF /\ Truthy(currentUser[ws])
                                /\ c \in Members(Get(rooms', room))
                                /\ readyState'[c] = "OPEN"
                             THEN 1 ELSE 0)
            ELSE rooms' = rooms /\ sent' = <<>>]_vars

\* C6: no member list holds a connection whose close event has been handled.
C6_NoClosedMember ==
    \A k \in DOMAIN rooms : \A c \in Conns :
        readyState[c] = "CLOSED" => c \notin Members(rooms[k])

\* C7: the owner read for a room that stays in the registry never changes.
C7_OwnerNeverReassigned ==
    [][\A k \in DOMAIN rooms \cap DOMAIN rooms' :
          Get(roomOwners', k) = Get(roomOwners, k)]_vars

\* C8: the identifier a create assigns is not the identifier of a room of the
\* registry, so the create leaves every existing room's members and owner alone.
C8_CreateIdentifierIsFresh ==
    [][last'.action = "create" =>
          /\ ~Has(rooms, last'.room)
          /\ \A k \in DOMAIN rooms :
                /\ Has(rooms', k)
                /\ Get(rooms', k) = Get(rooms, k)
                /\ Get(roomOwners', k) = Get(roomOwners, k)]_vars

\* C9: no connection occurs more than once in a member list.
C9_NoDuplicateMember ==
    \A k \in DOMAIN rooms : \A c \in Conns : Occurrences(rooms[k], c) <= 1

\* C10: every connection is in the member list of at most one room.
C10_AtMostOneRoom ==
    \A c \in Conns :
        Cardinality({k \in DOMAIN rooms : c \in Members(rooms[k])}) <= 1

\* C11: a room that exists without owner record (made by a join) is never
\* destroyed: a destroyRoom frame of a session bound to it, whatever userId it
\* carries or omits, sends nothing, closes nobody and leaves the room in place.
C11_OwnerlessRoomNeverDestroyed ==
    [][(/\ last'.action = "destroyRoom"
        /\ Truthy(currentRoom[last'.conn])
        /\ Has(rooms, currentRoom[last'.conn])
        /\ ~Has(roomOwners, currentRoom[last'.conn]))
       => /\ sent' = <<>>
          /\ readyState' = readyState
          /\ rooms' = rooms
          /\ ~Has(roomOwners', currentRoom[last'.conn])]_vars

\* How many entries of a member list are open targets: entries other than
\* skip whose connection is OPEN under rs.
OpenEntries(list, skip, rs, client) ==
    Cardinality({i \in DOMAIN list :
                    list[i] = client /\ client # skip /\ rs[client] = "OPEN"})

\* The step's send log is one delivery of kind action per open target entry
\* of list, to open connections only, and nothing else.
DeliveredToOpen(log, list, skip, rs, action) ==
    /\ \A i \in DOMAIN log : log[i].open /\ log[i].msg.action = action
    /\ \A c \in Conns : Received(log, c, action) = OpenEntries(list, skip, rs, c)

\* C12: every broadcast reaches every targeted member whose connection is
\* open at broadcast time and skips the others without aborting: the join
\* notice targets the members other than the joiner; message, deleteFile and
\* clearChat target all members, sender included; roomDestroyed targets the
\* members still open when the loop reaches them; the departure notice targets
\* the members that remain.
C12_BroadcastReachesOpenMembers ==
    [][LET ws   == last'.conn
           room == currentRoom[ws]
       IN  /\ last'.action = "join"
              => DeliveredToOpen(sent', Get(rooms', last'.room), ws,
                                 readyState, "system")
           /\ (/\ last'.action \in {"message", "deleteFile", "clearChat"}
               /\ Truthy(room) /\ Has(rooms, room))
              => DeliveredToOpen(sent', Get(rooms, room), 0,
                                 readyState, last'.action)
           /\ (/\ last'.action = "destroyRoom"
               /\ Truthy(room) /\ Has(rooms, room)
               /\ Get(roomOwners, room) = last'.userId)
              => /\ \A i \in DOMAIN sent' :
                        sent'[i].open /\ sent'[i].msg.action = "roomDestroyed"
                 /\ \A c \in Conns :
                        Received(sent', c, "roomDestroyed")
                          = (IF c \in Members(Get(rooms, room))
                                /\ readyState[c] = "OPEN" THEN 1 ELSE 0)
           /\ (/\ last'.action = "close"
               /\ Truthy(room) /\ Has(rooms, room) /\ Truthy(currentUser[ws]))
              => DeliveredToOpen(sent', Get(rooms, room), ws,
                                 readyState, "system")]_vars

\* A deleteFile went past a member that is not open and still reached the
\* sender itself, which is listed after it.
C12_Witness ==
    /\ last.action = "deleteFile"
    /\ Truthy(currentRoom[last.conn])
    /\ Has(rooms, currentRoom[last.conn])
    /\ LET list == Get(rooms, currentRoom[last.conn])
       IN  \E i, j \in DOMAIN list :
              /\ i < j
              /\ readyState[list[i]] # "OPEN"
              /\ list[j] = last.conn
              /\ readyState[list[j]] = "OPEN"
              /\ Received(sent, list[j], "deleteFile") >= 1

\* C13: no handler ever attempts a send on a connection that is not open:
\* every entry of the send log of every step, the roomCreated reply of create
\* included, went to a connection that was OPEN when it was sent.
C13_NoSendOnNonOpenConnection ==
    \A i \in DOMAIN sent : sent[i].open

\* C14: when a connection joins a room, every other member of the room whose
\* connection is open receives exactly one join notice, and the joining
\* connection receives none.
C14_JoinNoticeOncePerOtherMember ==
    [][last'.action = "join" =>
        LET ws   == last'.conn
            list == Get(rooms', last'.room)
        IN  /\ \A m \in Members(list) \ {ws} :
                  readyState[m] = "OPEN" => Received(sent', m, "system") = 1
            /\ Received(sent', ws, "system") = 0]_vars

\* The step is the close event of a connection that a destroyRoom closed:
\* the server called close() on it (CLOSING with no close frame from the
\* peer), its session is still bound to the destroyed room id, and it is in
\* no member list of that id.
ClosedByDestroyStep ==
    /\ last'.action = "close"
    /\ readyState[last'.conn] = "CLOSING"
    /\ ~closeFrameReceived[last'.conn]
    /\ Truthy(currentRoom[last'.conn])
    /\ last'.conn \notin Members(IF Has(rooms, currentRoom[last'.conn])
                                 THEN Get(rooms, currentRoom[last'.conn])
                                 ELSE <<>>)

\* C15: the close event of a connection closed by an owner's destroyRoom
\* sends no departure notice to anyone and changes no member list, also when
\* other connections have created or joined the same room id in between.
C15_CloseAfterDestroyIsSilent ==
    [][ClosedByDestroyStep => sent' = <<>> /\ rooms' = rooms]_vars

\* The step handles a frame that matches no branch: it does not parse or its
\* action is not recognised, or it is a message, deleteFile, clearChat or
\* destroyRoom frame of a session that is not bound to a room.
DiscardedFrameStep ==
    \/ last'.action = "discard"
    \/ /\ last'.action \in {"message", "deleteFile", "clearChat", "destroyRoom"}
       /\ ~Truthy(currentRoom[last'.conn])

\* C16: a discarded frame changes neither rooms nor roomOwners nor any
\* session's room or user, sends nothing, and leaves the connection as it
\* was, still reading frames.
C16_DiscardedFrameChangesNothing ==
    [][DiscardedFrameStep =>
        /\ UNCHANGED <<rooms, roomOwners, currentRoom, currentUser,
                       readyState, closeFrameReceived>>
        /\ sent' = <<>>
        /\ readyState'[last'.conn] \in {"OPEN", "CLOSING"}
        /\ ~closeFrameReceived'[last'.conn]]_vars

\* An open connection whose session is unbound, although it is a member of
\* the room stored under the key of its room variable, has just had a
\* broadcast frame discarded.
C16_Witness ==
    /\ last.action \in {"message", "deleteFile", "clearChat"}
    /\ ~Truthy(currentRoom[last.conn])
    /\ Has(rooms, currentRoom[last.conn])
    /\ last.conn \in Members(Get(rooms, currentRoom[last.conn]))
    /\ readyState[last.conn] = "OPEN"
    /\ sent = <<>>

C18_BoundStaysBound ==
    [][\A ws \in Conns :
          (Truthy(currentRoom[ws]) /\ readyState'[ws] # "CLOSED")
             => Truthy(currentRoom'[ws])]_vars

\* C19: every open connection whose session is bound to a room has that room
\* in the registry and is in the room's member list.
C19_BoundOpenSessionIsMember ==
    \A ws \in Conns :
        (readyState[ws] = "OPEN" /\ Truthy(currentRoom[ws]))
           => /\ Has(rooms, currentRoom[ws])
              /\ ws \in Members(Get(rooms, currentRoom[ws]))

\* C20: a destroyRoom frame succeeds (the sender's current room is removed
\* from the registry) exactly when the userId carried in the frame equals the
\* owner recorded for that room.  The session's own user is not consulted.
C20_DestroySucceedsIffOwnerId ==
    [][last'.action = "destroyRoom" =>
        LET room == currentRoom[last'.conn]
        IN  (Truthy(room) /\ Has(rooms, room) /\ ~Has(rooms', room))
               <=> (/\ Truthy(room)
                    /\ Has(roomOwners, room)
                    /\ Get(roomOwners, room) = last'.userId)]_vars

====
